---- MODULE Spec2Model ----
(***************************************************************************)
(* Proxy & HTTP checker backend: the per-target probe loops and their      *)
(* supervisor (backend/app.py) and the bounded ping history                *)
(* (backend/db.py).                                                        *)
(*                                                                         *)
(* Every coroutine (probe loop, request handler) is a process whose        *)
(* position is the await it is suspended at.  A database call of db.py     *)
(* opens its own connection and awaits several times, so the point where   *)
(* its statement takes effect and the point where the caller resumes are   *)
(* separate steps wherever the caller acts on the result.  Synchronous     *)
(* code between two awaits is one step.                                    *)
(***************************************************************************)
EXTENDS Integers, Sequences, FiniteSets, TLC

\* ---------------------------------------------------------------- bounds
MaxServers == 2
MaxTasks == 2
MaxReqs == 2
MaxPings == 1
MaxFaults == 1
MaxArrivals == 3
MaxAppends == 2
MaxOthers == 1
MaxSkews == 1
MaxCancels == 1
MaxTargetPings == 2

\* ------------------------------------------------------ program constants
HistoryCap == 100
DefaultInterval == 60

ServerIds == 1..MaxServers
TaskIds == 1..MaxTasks
ReqIds == 1..MaxReqs
NoTask == 0
Unset == -99
Intervals == {5}
Outcomes == {"ok", "fail"}
TieOrders == {"rowid_asc", "rowid_desc"}

VARIABLES
    phase,          \* "init", "listed", "serving", "stopped"
    listed,         \* startup's local: the rows list_servers returned
    servers,        \* table servers: id -> row
    nextServerId,   \* AUTOINCREMENT of servers
    pings,          \* table pings, in rowid order
    nextPingId,     \* AUTOINCREMENT of pings
    now,            \* time.time()
    tasks,          \* _tasks: server id -> task
    loops,          \* the asyncio tasks running _check_loop
    reqs,           \* request handlers in progress
    faults,         \* storage failures raised so far
    arrived,        \* requests received so far
    client,         \* a caller of db.add_ping / db.get_pings outside the loops
    call            \* one call of checker.check: arguments, position, result

vars == <<phase, listed, servers, nextServerId, pings, nextPingId, now,
          tasks, loops, reqs, faults, arrived, client, call>>

\* ------------------------------------------------------------------ rows
NoRow == [present |-> FALSE, interval |-> 0]
Row(i) == [present |-> TRUE, interval |-> i]

FreeTask == [pc |-> "free", sid |-> 0, cancel |-> FALSE, s |-> NoRow,
             s2 |-> NoRow, res |-> "none", ts |-> 0, sleep |-> 0,
             why |-> "none"]
NewTask(sid) == [FreeTask EXCEPT !.pc = "get1", !.sid = sid]

IdleReq == [op |-> "none", pc |-> "idle", sid |-> 0, arg |-> 0,
            row |-> NoRow, remaining |-> {}]

IdleClient == [pc |-> "idle", sid |-> 0, reading |-> FALSE, rsid |-> 0,
               rlimit |-> 0, result |-> <<>>, appends |-> 0, others |-> 0,
               skews |-> 0, cancels |-> 0,
               log |-> <<>>, mono |-> TRUE]

\* no call of checker.check is being followed
IdleCall == [pc |-> "idle"]

Min(a, b) == IF a < b THEN a ELSE b
Max(a, b) == IF a > b THEN a ELSE b

\* ------------------------------------------------------------- db.py
\* the row as it was when the task was started, never read again
get_server_stale(S, sid) == Row(5)

\* get_server: the row, or None
get_server(S, sid) == S[sid]

\* list_servers: the ids of the rows present
list_servers(S) == {i \in ServerIds : S[i].present}

\* create_server's INSERT: interval is int(data.get('interval') or 60)
create_row(intv) == Row(IF intv = 0 THEN DefaultInterval ELSE intv)

\* update_server's UPDATE ... WHERE id = ?: no row, no change
update_row(S, sid, intv) ==
    IF intv # Unset /\ S[sid].present
    THEN [S EXCEPT ![sid] = Row(intv)]
    ELSE S

RowsOf(P, sid) == {P[i] : i \in {j \in 1..Len(P) : P[j].server_id = sid}}

\* ORDER BY ts DESC; SQL leaves the order of equal ts open
Precedes(a, b, tie) ==
    \/ a.ts > b.ts
    \/ /\ a.ts = b.ts
       /\ IF tie = "rowid_asc" THEN a.id < b.id ELSE a.id > b.id

\* two sorted runs merged: the leading run of the one that starts first,
\* then the merge of what is left
RECURSIVE Merge(_, _, _)
Merge(A, B, tie) ==
    IF A = <<>> THEN B
    ELSE IF B = <<>> THEN A
    ELSE IF Precedes(B[Len(B)], A[1], tie) THEN B \o A
    ELSE IF Precedes(B[1], A[1], tie) THEN Merge(B, A, tie)
    ELSE LET k == Cardinality({i \in 1..Len(A) : Precedes(A[i], B[1], tie)})
         IN  SubSeq(A, 1, k) \o Merge(B, SubSeq(A, k + 1, Len(A)), tie)

\* the rows Q[lo..hi] sorted by merge sort
RECURSIVE Sorted(_, _, _, _)
Sorted(Q, lo, hi, tie) ==
    IF lo > hi THEN <<>>
    ELSE IF lo = hi THEN <<Q[lo]>>
    ELSE LET mid == (lo + hi) \div 2
         IN  Merge(Sorted(Q, lo, mid, tie), Sorted(Q, mid + 1, hi, tie), tie)

\* SELECT ... FROM pings WHERE server_id = ? ORDER BY ts DESC
OrderBy(P, sid, tie) ==
    LET Q == SelectSeq(P, LAMBDA r : r.server_id = sid)
    IN  Sorted(Q, 1, Len(Q), tie)

\* add_ping's INSERT and commit
InsertPing(P, id, sid, ts, res) ==
    Append(P, [id |-> id, server_id |-> sid, ts |-> ts, res |-> res])

\* the prune with OFFSET 99: one row too many goes
PrunePingsOffByOne(P, sid, tie) ==
    LET o == OrderBy(P, sid, tie)
    IN  IF Len(o) < HistoryCap THEN P
        ELSE LET gone == {o[i] : i \in HistoryCap..Len(o)}
             IN  SelectSeq(P, LAMBDA r : r \notin gone)

\* the prune without WHERE server_id = ?: the rows beyond the 100 newest of
\* the whole table go
PrunePingsAnyTarget(P, sid, tie) ==
    LET o == Sorted(P, 1, Len(P), tie)
    IN  IF Len(o) <= HistoryCap THEN P
        ELSE LET gone == {o[i] : i \in (HistoryCap + 1)..Len(o)}
             IN  SelectSeq(P, LAMBDA r : r \notin gone)

\* add_ping's DELETE ... ORDER BY ts DESC LIMIT -1 OFFSET 100, and commit
PrunePings(P, sid, tie) ==
    LET o == OrderBy(P, sid, tie)
    IN  IF Len(o) <= HistoryCap THEN P
        ELSE LET gone == {o[i] : i \in (HistoryCap + 1)..Len(o)}
             IN  SelectSeq(P, LAMBDA r : r \notin gone)

\* delete_server's DELETE FROM pings WHERE server_id = ?
DeletePings(P, sid) == SelectSeq(P, LAMBDA r : r.server_id # sid)

\* get_pings with ORDER BY ts ASC: the oldest rows first
get_pings_asc(P, sid, limit, tie) ==
    LET o == OrderBy(P, sid, tie)
        a == [i \in 1..Len(o) |-> o[Len(o) + 1 - i]]
    IN  SubSeq(a, 1, IF limit < 0 THEN Len(a) ELSE Min(limit, Len(a)))

\* get_pings: ORDER BY ts DESC LIMIT ? (a negative LIMIT is no limit)
get_pings(P, sid, limit, tie) ==
    LET o == OrderBy(P, sid, tie)
    IN  SubSeq(o, 1, IF limit < 0 THEN Len(o) ELSE Min(limit, Len(o)))

\* ------------------------------------------------------ task supervisor
Done(L, t) == L[t].pc = "done"
Live(L, t) == L[t].pc \notin {"free", "done"}
\* a probe loop that has not been cancelled and has not finished
Active(L, t) == Live(L, t) /\ ~L[t].cancel

\* Task.cancel() on a task that is not done
CancelTask(L, t) == [L EXCEPT ![t].cancel = TRUE]

\* a finished task nothing refers to any more is gone
Drop(L, t) == IF Done(L, t) THEN [L EXCEPT ![t] = FreeTask] ELSE L

FreeSlots(L) == {t \in TaskIds : L[t].pc = "free"}
Slot(L) == CHOOSE t \in FreeSlots(L) : \A u \in FreeSlots(L) : t <= u

\* _start_task_for_server without the cancel() of the task it replaces
StartTaskNoCancel(L, T, sid) ==
    LET new == Slot(L)
    IN  <<[L EXCEPT ![new] = NewTask(sid)], [T EXCEPT ![sid] = new]>>

\* _start_task_for_server: <<loops, tasks>> afterwards
StartTask(L, T, sid) ==
    LET old == T[sid]
        L1 == IF old = NoTask THEN L
              ELSE IF Done(L, old) THEN Drop(L, old)
              ELSE CancelTask(L, old)
        new == Slot(L1)
    IN  <<[L1 EXCEPT ![new] = NewTask(sid)], [T EXCEPT ![sid] = new]>>

\* _cancel_task with _tasks.get in place of _tasks.pop: the entry stays
CancelAndKeep(L, T, sid) ==
    LET old == T[sid]
        L1 == IF old = NoTask \/ Done(L, old) THEN L ELSE CancelTask(L, old)
    IN  <<L1, T>>

\* _cancel_task: pop, and cancel if not done
CancelAndPop(L, T, sid) ==
    LET old == T[sid]
        L1 == IF old = NoTask THEN L
              ELSE IF Done(L, old) THEN Drop(L, old)
              ELSE CancelTask(L, old)
    IN  <<L1, [T EXCEPT ![sid] = NoTask]>>

RECURSIVE StartAll(_, _, _)
StartAll(L, T, ids) ==
    IF ids = {} THEN <<L, T>>
    ELSE LET sid == CHOOSE i \in ids : \A j \in ids : i <= j
             LT == StartTask(L, T, sid)
         IN  StartAll(LT[1], LT[2], ids \ {sid})

RECURSIVE CancelAll(_, _, _)
CancelAll(L, T, ids) ==
    IF ids = {} THEN <<L, T>>
    ELSE LET sid == CHOOSE i \in ids : \A j \in ids : i <= j
             LT == CancelAndPop(L, T, sid)
         IN  CancelAll(LT[1], LT[2], ids \ {sid})

\* the coroutine of task t returns or raises: the task is done
Finish(L, T, t, why) ==
    IF T[L[t].sid] = t
    THEN [L EXCEPT ![t] = [FreeTask EXCEPT !.pc = "done", !.sid = L[t].sid,
                                          !.cancel = L[t].cancel, !.why = why]]
    ELSE [L EXCEPT ![t] = FreeTask]

\* ------------------------------------------------------------------ Init
Init ==
    /\ phase = "init"
    /\ listed = {}
    /\ \E n \in 0..1 :
          /\ servers = [i \in ServerIds |->
                           IF i <= n THEN Row(5) ELSE NoRow]
          /\ nextServerId = n + 1
    /\ pings = <<>>
    /\ nextPingId = 1
    /\ now = 0
    /\ tasks = [i \in ServerIds |-> NoTask]
    /\ loops = [t \in TaskIds |-> FreeTask]
    /\ reqs = [r \in ReqIds |-> IdleReq]
    /\ faults = 0
    /\ arrived = 0
    /\ client = IdleClient
    /\ call = IdleCall

\* ------------------------------------------------------ startup, shutdown
StartupList ==
    /\ phase = "init"
    /\ listed' = list_servers(servers)
    /\ phase' = "listed"
    /\ UNCHANGED <<servers, nextServerId, pings, nextPingId, now, tasks,
                   loops, reqs, faults, arrived, client, call>>

StartupReturn ==
    /\ phase = "listed"
    /\ Cardinality(FreeSlots(loops)) >= Cardinality(listed)
    /\ LET LT == StartAll(loops, tasks, listed)
       IN  loops' = LT[1] /\ tasks' = LT[2]
    /\ listed' = {}
    /\ phase' = "serving"
    /\ UNCHANGED <<servers, nextServerId, pings, nextPingId, now, reqs, faults, arrived, client,
                   call>>

\* shutdown that leaves the tasks running
CancelNone(L, T) == L

\* for t in list(_tasks.values()): if not t.done(): t.cancel()
CancelRunning(L, T) ==
    [t \in TaskIds |->
        IF (\E sid \in ServerIds : T[sid] = t) /\ ~Done(L, t)
        THEN [L[t] EXCEPT !.cancel = TRUE] ELSE L[t]]

Shutdown ==
    /\ phase = "serving"
    /\ \A r \in ReqIds : reqs[r].pc = "idle"
    /\ loops' = CancelRunning(loops, tasks)
    /\ phase' = "stopped"
    /\ UNCHANGED <<listed, servers, nextServerId, pings, nextPingId, now,
                   tasks, reqs, faults, arrived, client, call>>
\* ----------------------------------------------------------- _check_loop
\* add_ping shielded from cancellation
ResumesShielded(L, t) ==
    ~L[t].cancel \/ L[t].pc \in {"ins", "prune", "xins", "xprune"}

\* a coroutine suspended at an await resumes normally unless cancellation
\* was requested: CancelledError is no Exception, the loop does not catch it
Resumes(L, t) == ~L[t].cancel

At(t, pcs) == loops[t].pc \in pcs /\ Resumes(loops, t)

\* int(s2.get('interval') or 60), then max(1, interval)
SleepFor(row) ==
    Max(1, IF row.interval = 0 THEN DefaultInterval ELSE row.interval)

\* s = await db.get_server(server_id); if not s: break; else check(...)
LoopGet1(t) ==
    /\ At(t, {"get1"})
    /\ LET s == get_server(servers, loops[t].sid)
       IN  loops' = IF ~s.present
                    THEN Finish(loops, tasks, t, "absent")
                    ELSE [loops EXCEPT ![t].pc = "probe", ![t].s = s]
    /\ UNCHANGED <<phase, listed, servers, nextServerId, pings, nextPingId,
                   now, tasks, reqs, faults, arrived, client, call>>

\* check(...) returns a result: res['ts'] = time.time(); add_ping is called
LoopProbe(t, out) ==
    /\ At(t, {"probe"})
    /\ now' = now + 1
    /\ loops' = [loops EXCEPT ![t].pc = "ins", ![t].res = out,
                              ![t].ts = now', ![t].s = NoRow]
    /\ UNCHANGED <<phase, listed, servers, nextServerId, pings, nextPingId,
                   tasks, reqs, faults, arrived, client, call>>

\* check(...) raises: except Exception: add_ping({'ts', 'ok': False, 'error'})
LoopProbeRaises(t) ==
    /\ At(t, {"probe"})
    /\ now' = now + 1
    /\ loops' = [loops EXCEPT ![t].pc = "xins", ![t].res = "exc",
                              ![t].ts = now', ![t].s = NoRow]
    /\ UNCHANGED <<phase, listed, servers, nextServerId, pings, nextPingId,
                   tasks, reqs, faults, arrived, client, call>>

\* add_ping: INSERT, commit (in the try block, or in the except block)
LoopInsertUpTo(t, cap) ==
    /\ At(t, {"ins", "xins"})
    /\ nextPingId <= cap
    /\ pings' = InsertPing(pings, nextPingId, loops[t].sid, loops[t].ts,
                           loops[t].res)
    /\ nextPingId' = nextPingId + 1
    /\ loops' = [loops EXCEPT
                   ![t].pc = IF loops[t].pc = "ins" THEN "prune" ELSE "xprune"]
    /\ UNCHANGED <<phase, listed, servers, nextServerId, now, tasks, reqs,
                   faults, arrived, client, call>>

LoopInsert(t) == LoopInsertUpTo(t, MaxPings)

\* add_ping: DELETE beyond the 100 most recent, commit; then get_server is called
LoopPrune(t, tie) ==
    /\ At(t, {"prune", "xprune"})
    /\ pings' = PrunePings(pings, loops[t].sid, tie)
    /\ loops' = [loops EXCEPT ![t].pc = "get2", ![t].res = "none",
                              ![t].ts = 0]
    /\ UNCHANGED <<phase, listed, servers, nextServerId, nextPingId, now,
                   tasks, reqs, faults, arrived, client, call>>

\* add_ping raises inside the try block: except Exception: add_ping(...)
LoopAddPingFails(t) ==
    /\ At(t, {"ins", "prune"})
    /\ faults < MaxFaults
    /\ faults' = faults + 1
    /\ now' = now + 1
    /\ loops' = [loops EXCEPT ![t].pc = "xins", ![t].res = "exc",
                              ![t].ts = now']
    /\ UNCHANGED <<phase, listed, servers, nextServerId, pings, nextPingId,
                   tasks, reqs, arrived, client, call>>

\* add_ping raises inside the except block, or get_server raises: nothing
\* catches it and the coroutine ends
LoopDies(t) ==
    /\ At(t, {"xins", "xprune", "get1", "get2"})
    /\ faults < MaxFaults
    /\ faults' = faults + 1
    /\ loops' = Finish(loops, tasks, t, "error")
    /\ UNCHANGED <<phase, listed, servers, nextServerId, pings, nextPingId,
                   now, tasks, reqs, arrived, client, call>>

\* s2 = await db.get_server(server_id); if not s2: break; else sleep
LoopGet2(t) ==
    /\ At(t, {"get2"})
    /\ LET s2 == get_server(servers, loops[t].sid)
       IN  loops' = IF ~s2.present
                    THEN Finish(loops, tasks, t, "absent")
                    ELSE [loops EXCEPT ![t].pc = "sleep", ![t].s2 = s2,
                                       ![t].sleep = SleepFor(s2)]
    /\ UNCHANGED <<phase, listed, servers, nextServerId, pings, nextPingId,
                   now, tasks, reqs, faults, arrived, client, call>>

\* asyncio.sleep returns: back to the top of the while loop
LoopWake(t) ==
    /\ At(t, {"sleep"})
    /\ loops' = [loops EXCEPT ![t].pc = "get1", ![t].s2 = NoRow,
                              ![t].sleep = 0]
    /\ UNCHANGED <<phase, listed, servers, nextServerId, pings, nextPingId,
                   now, tasks, reqs, faults, arrived, client, call>>

\* CancelledError is thrown into the coroutine at the await it is suspended at
LoopCancelled(t) ==
    /\ Live(loops, t)
    /\ ~Resumes(loops, t)
    /\ loops' = Finish(loops, tasks, t, "cancelled")
    /\ UNCHANGED <<phase, listed, servers, nextServerId, pings, nextPingId,
                   now, tasks, reqs, faults, arrived, client, call>>

\* ------------------------------------------------------ request handlers
Serving(r) ==
    /\ phase = "serving"
    /\ arrived < MaxArrivals
    /\ reqs[r].pc = "idle"
    /\ \A q \in ReqIds : q < r => reqs[q].pc # "idle"

\* POST /servers
CreateArrives(r, intv) ==
    /\ Serving(r)
    /\ arrived' = arrived + 1
    /\ nextServerId <= MaxServers
    /\ reqs' = [reqs EXCEPT ![r] = [IdleReq EXCEPT !.op = "create",
                                       !.pc = "write", !.arg = intv]]
    /\ UNCHANGED <<phase, listed, servers, nextServerId, pings, nextPingId,
                   now, tasks, loops, faults, client, call>>

\* db.create_server: INSERT, commit; rowid = cur.lastrowid
CreateWrite(r) ==
    /\ reqs[r].op = "create" /\ reqs[r].pc = "write"
    /\ nextServerId <= MaxServers
    /\ servers' = [servers EXCEPT ![nextServerId] = create_row(reqs[r].arg)]
    /\ nextServerId' = nextServerId + 1
    /\ reqs' = [reqs EXCEPT ![r].pc = "reread", ![r].sid = nextServerId]
    /\ UNCHANGED <<phase, listed, pings, nextPingId, now, tasks, loops, faults, arrived, client,
                   call>>

\* db.create_server, db.update_server: return await get_server(...)
Reread(r) ==
    /\ reqs[r].pc = "reread"
    /\ reqs' = [reqs EXCEPT ![r].pc = "ret",
                            ![r].row = get_server(servers, reqs[r].sid)]
    /\ UNCHANGED <<phase, listed, servers, nextServerId, pings, nextPingId,
                   now, tasks, loops, faults, arrived, client, call>>

\* create_server, update_server resume: _start_task_for_server(row).  A row of
\* None raises (create: TypeError, update: 404) and no task is started.
StartReturn(r) ==
    /\ reqs[r].op \in {"create", "update"} /\ reqs[r].pc = "ret"
    /\ IF reqs[r].row.present
       THEN /\ FreeSlots(loops) # {}
            /\ LET LT == StartTask(loops, tasks, reqs[r].sid)
               IN  loops' = LT[1] /\ tasks' = LT[2]
       ELSE UNCHANGED <<loops, tasks>>
    /\ reqs' = [reqs EXCEPT ![r] = IdleReq]
    /\ UNCHANGED <<phase, listed, servers, nextServerId, pings, nextPingId,
                   now, faults, arrived, client, call>>

\* PUT /servers/{server_id}
UpdateArrives(r, sid, intv) ==
    /\ Serving(r)
    /\ sid < nextServerId
    /\ arrived' = arrived + 1
    /\ reqs' = [reqs EXCEPT ![r] = [IdleReq EXCEPT !.op = "update",
                                       !.pc = "write", !.sid = sid,
                                       !.arg = intv]]
    /\ UNCHANGED <<phase, listed, servers, nextServerId, pings, nextPingId,
                   now, tasks, loops, faults, client, call>>

\* db.update_server: UPDATE, commit (no statement when no key is set)
UpdateWrite(r) ==
    /\ reqs[r].op = "update" /\ reqs[r].pc = "write"
    /\ servers' = update_row(servers, reqs[r].sid, reqs[r].arg)
    /\ reqs' = [reqs EXCEPT ![r].pc = "reread"]
    /\ UNCHANGED <<phase, listed, nextServerId, pings, nextPingId, now, tasks,
                   loops, faults, arrived, client, call>>

\* DELETE /servers/{server_id}: _cancel_task(server_id), then db.delete_server
DeleteArrives(r, sid) ==
    /\ Serving(r)
    /\ sid < nextServerId
    /\ arrived' = arrived + 1
    /\ LET LT == CancelAndPop(loops, tasks, sid)
       IN  loops' = LT[1] /\ tasks' = LT[2]
    /\ reqs' = [reqs EXCEPT ![r] = [IdleReq EXCEPT !.op = "delete",
                                       !.pc = "write", !.sid = sid]]
    /\ UNCHANGED <<phase, listed, servers, nextServerId, pings, nextPingId,
                   now, faults, client, call>>

\* db.delete_server: DELETE FROM servers, DELETE FROM pings, commit
DeleteWrite(r) ==
    /\ reqs[r].op = "delete" /\ reqs[r].pc = "write"
    /\ servers' = [servers EXCEPT ![reqs[r].sid] = NoRow]
    /\ pings' = DeletePings(pings, reqs[r].sid)
    /\ reqs' = [reqs EXCEPT ![r].pc = "list"]
    /\ UNCHANGED <<phase, listed, nextServerId, nextPingId, now, tasks, loops,
                   faults, arrived, client, call>>

\* remaining = await db.list_servers(): the SELECT
DeleteList(r) ==
    /\ reqs[r].op = "delete" /\ reqs[r].pc = "list"
    /\ reqs' = [reqs EXCEPT ![r].pc = "ret",
                            ![r].remaining = list_servers(servers)]
    /\ UNCHANGED <<phase, listed, servers, nextServerId, pings, nextPingId,
                   now, tasks, loops, faults, arrived, client, call>>

\* delete_server resumes: if not remaining, cancel every task and clear _tasks
DeleteReturn(r) ==
    /\ reqs[r].op = "delete" /\ reqs[r].pc = "ret"
    /\ IF reqs[r].remaining = {}
       THEN LET LT == CancelAll(loops, tasks, ServerIds)
            IN  loops' = LT[1] /\ tasks' = LT[2]
       ELSE UNCHANGED <<loops, tasks>>
    /\ reqs' = [reqs EXCEPT ![r] = IdleReq]
    /\ UNCHANGED <<phase, listed, servers, nextServerId, pings, nextPingId,
                   now, faults, arrived, client, call>>

\* ------------------------------------------------------------------ Next
LoopStep(t) ==
    \/ LoopGet1(t)
    \/ \E out \in Outcomes : LoopProbe(t, out)
    \/ LoopProbeRaises(t)
    \/ LoopInsert(t)
    \/ \E tie \in TieOrders : LoopPrune(t, tie)
    \/ LoopGet2(t)
    \/ LoopWake(t)
    \/ LoopCancelled(t)

Next ==
    \/ StartupList
    \/ StartupReturn
    \/ Shutdown
    \/ \E t \in TaskIds : LoopGet1(t)
    \/ \E t \in TaskIds, out \in Outcomes : LoopProbe(t, out)
    \/ \E t \in TaskIds : LoopProbeRaises(t)
    \/ \E t \in TaskIds : LoopInsert(t)
    \/ \E t \in TaskIds, tie \in TieOrders : LoopPrune(t, tie)
    \/ \E t \in TaskIds : LoopAddPingFails(t)
    \/ \E t \in TaskIds : LoopDies(t)
    \/ \E t \in TaskIds : LoopGet2(t)
    \/ \E t \in TaskIds : LoopWake(t)
    \/ \E t \in TaskIds : LoopCancelled(t)
    \/ \E r \in ReqIds, i \in Intervals : CreateArrives(r, i)
    \/ \E r \in ReqIds : CreateWrite(r)
    \/ \E r \in ReqIds : Reread(r)
    \/ \E r \in ReqIds : StartReturn(r)
    \/ \E r \in ReqIds, sid \in ServerIds, i \in Intervals :
          UpdateArrives(r, sid, i)
    \/ \E r \in ReqIds : UpdateWrite(r)
    \/ \E r \in ReqIds, sid \in ServerIds : DeleteArrives(r, sid)
    \/ \E r \in ReqIds : DeleteWrite(r)
    \/ \E r \in ReqIds : DeleteList(r)
    \/ \E r \in ReqIds : DeleteReturn(r)

Spec == Init /\ [][Next]_vars

\* the event loop runs every task that is ready, and every await of a task
\* (database call, probe with its timeout, sleep) completes
FairSpec == Spec /\ \A t \in TaskIds : WF_vars(LoopStep(t) \/ LoopDies(t))

\* ------------------------------------------- one target, reconfigured
\* The process after startup with one registered target: its loop runs while
\* PUT and DELETE requests for it arrive; storage does not fail.
TargetIntervals == {-3, 0, 7}

TargetInit ==
    /\ phase = "serving"
    /\ listed = {}
    /\ servers = [i \in ServerIds |-> IF i = 1 THEN Row(5) ELSE NoRow]
    /\ nextServerId = 2
    /\ pings = <<>>
    /\ nextPingId = 1
    /\ now = 0
    /\ tasks = [i \in ServerIds |-> IF i = 1 THEN 1 ELSE NoTask]
    /\ loops = [t \in TaskIds |-> IF t = 1 THEN NewTask(1) ELSE FreeTask]
    /\ reqs = [r \in ReqIds |-> IdleReq]
    /\ faults = MaxFaults
    /\ arrived = 0
    /\ client = IdleClient
    /\ call = IdleCall

TargetNext ==
    \/ \E t \in TaskIds : LoopGet1(t)
    \/ \E t \in TaskIds, out \in Outcomes : LoopProbe(t, out)
    \/ \E t \in TaskIds : LoopProbeRaises(t)
    \/ \E t \in TaskIds : LoopInsertUpTo(t, MaxTargetPings)
    \/ \E t \in TaskIds, tie \in TieOrders : LoopPrune(t, tie)
    \/ \E t \in TaskIds : LoopGet2(t)
    \/ \E t \in TaskIds : LoopWake(t)
    \/ \E t \in TaskIds : LoopCancelled(t)
    \/ \E r \in ReqIds, sid \in ServerIds, i \in TargetIntervals :
          UpdateArrives(r, sid, i)
    \/ \E r \in ReqIds : UpdateWrite(r)
    \/ \E r \in ReqIds : Reread(r)
    \/ \E r \in ReqIds : StartReturn(r)
    \/ \E r \in ReqIds, sid \in ServerIds : DeleteArrives(r, sid)
    \/ \E r \in ReqIds : DeleteWrite(r)
    \/ \E r \in ReqIds : DeleteList(r)
    \/ \E r \in ReqIds : DeleteReturn(r)

TargetSpec == TargetInit /\ [][TargetNext]_vars

\* --------------------------------------------- the history store by itself
\* db.add_ping and db.get_pings called directly, one add_ping at a time, on a
\* table that earlier appends have filled: Target's history, and one Other.
Target == 1
Other == 2
Limits == {0, 1, HistoryCap, HistoryCap + 1}
Stamps == {"tick", "same", "back"}
Prefills == {0, HistoryCap - 1, HistoryCap + 3}

\* the rows of n add_ping calls for Target, stamped 1..n
Logged(n) ==
    [i \in 1..n |-> [id |-> i, server_id |-> Target, ts |-> i, res |-> "ok"]]

\* the table after the calls numbered lo..hi, made one after the other on P
RECURSIVE Fill(_, _, _)
Fill(P, lo, hi) ==
    IF lo > hi THEN P
    ELSE IF lo = hi
         THEN PrunePings(InsertPing(P, lo, Target, lo, "ok"), Target,
                         "rowid_asc")
         ELSE LET mid == (lo + hi) \div 2
                  left == Fill(P, lo, mid)
              IN  IF Len(left) >= 0 THEN Fill(left, mid + 1, hi) ELSE left

\* the table those n calls leave
Filled(n) == Fill(<<>>, 1, n)

HistoryInit ==
    /\ phase = "stopped"
    /\ listed = {}
    /\ servers = [i \in ServerIds |-> Row(5)]
    /\ nextServerId = MaxServers + 1
    /\ tasks = [i \in ServerIds |-> NoTask]
    /\ loops = [t \in TaskIds |-> FreeTask]
    /\ reqs = [r \in ReqIds |-> IdleReq]
    /\ faults = 0
    /\ arrived = 0
    /\ \E n \in Prefills :
          /\ pings = Filled(n)
          /\ nextPingId = n + 1
          /\ now = n
          /\ client = [IdleClient EXCEPT !.log = Logged(n)]
    /\ call = IdleCall

\* ping.get('ts', time.time()): time has passed, has not, or the clock was set back
Stamp(stamp) ==
    CASE stamp = "tick" -> now + 1
      [] stamp = "same" -> now
      [] stamp = "back" -> 0

\* two rows of sid carry the same ts: only then the tie order shows
HasTies(P, sid) ==
    Cardinality({r.ts : r \in RowsOf(P, sid)}) < Cardinality(RowsOf(P, sid))

\* add_ping(sid, ping): INSERT, commit
HAddPing(sid, stamp) ==
    /\ client.pc = "idle" /\ ~client.reading
    /\ IF sid = Target THEN client.appends < MaxAppends
                       ELSE client.others < MaxOthers
    /\ stamp # "tick" => client.skews < MaxSkews
    /\ now' = Stamp(stamp)
    /\ pings' = InsertPing(pings, nextPingId, sid, now', "ok")
    /\ nextPingId' = nextPingId + 1
    /\ client' = [client EXCEPT
          !.pc = "inserted", !.sid = sid,
          !.appends = IF sid = Target THEN @ + 1 ELSE @,
          !.others = IF sid = Target THEN @ ELSE @ + 1,
          !.skews = IF stamp = "tick" THEN @ ELSE @ + 1,
          !.mono = IF sid # Target THEN @
                   ELSE @ /\ (client.log = <<>>
                              \/ now' > client.log[Len(client.log)].ts)]
    /\ UNCHANGED <<phase, listed, servers, nextServerId, tasks, loops, reqs,
                   faults, arrived, call>>

\* add_ping: the prune, commit; add_ping returns
HPrune(tie) ==
    /\ client.pc = "inserted" /\ ~client.reading
    /\ tie = "rowid_asc" \/ HasTies(pings, client.sid)
    /\ pings' = PrunePings(pings, client.sid, tie)
    /\ client' = [client EXCEPT
          !.pc = "idle", !.sid = 0,
          !.log = IF /\ client.sid = Target
                     /\ pings # <<>>
                     /\ pings[Len(pings)].id = nextPingId - 1
                  THEN Append(@, pings[Len(pings)])
                  ELSE @]
    /\ UNCHANGED <<phase, listed, servers, nextServerId, nextPingId, now,
                   tasks, loops, reqs, faults, arrived, call>>

\* the caller is cancelled at the await between the INSERT and the prune
HCancel ==
    /\ client.pc = "inserted" /\ ~client.reading
    /\ client.cancels < MaxCancels
    /\ client' = [client EXCEPT
          !.pc = "idle", !.sid = 0, !.cancels = @ + 1,
          !.mono = IF client.sid = Target THEN FALSE ELSE @]
    /\ UNCHANGED <<phase, listed, servers, nextServerId, pings, nextPingId,
                   now, tasks, loops, reqs, faults, arrived, call>>

\* get_pings(sid, limit) by a concurrent reader: the SELECT
HRead(sid, limit, tie) ==
    /\ ~client.reading
    /\ tie = "rowid_asc" \/ HasTies(pings, sid)
    /\ client' = [client EXCEPT !.reading = TRUE, !.rsid = sid,
                                !.rlimit = limit,
                                !.result = get_pings(pings, sid, limit, tie)]
    /\ UNCHANGED <<phase, listed, servers, nextServerId, pings, nextPingId,
                   now, tasks, loops, reqs, faults, arrived, call>>

\* get_pings returns
HReturn ==
    /\ client.reading
    /\ client' = [client EXCEPT !.reading = FALSE, !.rsid = 0, !.rlimit = 0,
                                !.result = <<>>]
    /\ UNCHANGED <<phase, listed, servers, nextServerId, pings, nextPingId,
                   now, tasks, loops, reqs, faults, arrived, call>>

HistoryNext ==
    \/ \E sid \in {Target, Other}, stamp \in Stamps : HAddPing(sid, stamp)
    \/ \E tie \in TieOrders : HPrune(tie)
    \/ HCancel
    \/ \E sid \in {Target, Other}, limit \in Limits, tie \in TieOrders :
          HRead(sid, limit, tie)
    \/ HReturn

HistorySpec == HistoryInit /\ [][HistoryNext]_vars

\* ------------------------------------- the history store, two targets
\* db.add_ping and db.delete_server called directly on a table that holds the
\* histories of Target and of Other, appended in turn.
StoreSizes == {0, HistoryCap - 1, HistoryCap}

\* the table after nA add_ping calls for Target and nB for Other, one per
\* tick: the longer history had a head start, then the two took turns
Stored(nA, nB) ==
    LET d == IF nA >= nB THEN nA - nB ELSE nB - nA
        big == IF nA >= nB THEN Target ELSE Other
    IN  [i \in 1..(nA + nB) |->
            [id |-> i,
             server_id |-> IF i <= d THEN big
                           ELSE IF (i - d) % 2 = 1 THEN Target ELSE Other,
             ts |-> i, res |-> "ok"]]

StoreInit ==
    /\ phase = "stopped"
    /\ listed = {}
    /\ servers = [i \in ServerIds |-> Row(5)]
    /\ nextServerId = MaxServers + 1
    /\ tasks = [i \in ServerIds |-> NoTask]
    /\ loops = [t \in TaskIds |-> FreeTask]
    /\ reqs = [r \in ReqIds |-> IdleReq]
    /\ faults = 0
    /\ arrived = 0
    /\ \E nA \in StoreSizes, nB \in StoreSizes :
          /\ pings = Stored(nA, nB)
          /\ nextPingId = nA + nB + 1
          /\ now = nA + nB
    /\ client = IdleClient
    /\ call = IdleCall

\* db.delete_server(sid): DELETE FROM servers, DELETE FROM pings, commit
SDeleteServer(sid) ==
    /\ call.pc = "idle"
    /\ servers' = [servers EXCEPT ![sid] = NoRow]
    /\ pings' = DeletePings(pings, sid)
    /\ call' = [pc |-> "deleted", server_id |-> sid]
    /\ UNCHANGED <<phase, listed, nextServerId, nextPingId, now, tasks, loops,
                   reqs, faults, arrived, client>>

\* db.delete_server returns True
SDeleteReturns ==
    /\ call.pc = "deleted"
    /\ call' = IdleCall
    /\ UNCHANGED <<phase, listed, servers, nextServerId, pings, nextPingId,
                   now, tasks, loops, reqs, faults, arrived, client>>

StoreNext ==
    \/ \E sid \in {Target, Other}, stamp \in Stamps : HAddPing(sid, stamp)
    \/ \E tie \in TieOrders : HPrune(tie)
    \/ HCancel
    \/ \E sid \in {Target, Other} : SDeleteServer(sid)
    \/ SDeleteReturns

StoreSpec == StoreInit /\ [][StoreNext]_vars

\* ------------------------------------------------------------ checker.py
\* One call of check(target_type, host, port, scheme, path, test_url) and
\* the answer the network gives to the request it sends, if it sends one.
Kinds == {"http", "HTTP", "nginx", "Nginx", "squid", "SQUID", "proxy",
          "unknown", "ftp", ""}
Hosts == {"example.com", "localhost"}
Statuses == {200, 404, 500}

\* port: Optional[int]; a string of digits is what int() also accepts
PortNone == [t |-> "none", v |-> 0, d |-> <<>>]
PortInt(n) == [t |-> "int", v |-> n, d |-> <<>>]
PortStr(d) == [t |-> "str", v |-> 0, d |-> d]
Ports == {PortNone} \cup {PortInt(n) : n \in {0, 80, 3128}}
              \cup {PortStr(<<8, 0, 8, 0>>), PortStr(<<0, 8>>)}

\* what client.get does: a response with a status, or an exception
Nets ==
    {[t |-> "resp", status |-> st, error |-> "", ms |-> 15] : st \in Statuses}
    \cup {[t |-> "err", status |-> 0, error |-> e, ms |-> 8000] :
            e \in {"ConnectError", ""}}

\* str.lower on the kinds in use
lower(k) ==
    CASE k = "HTTP" -> "http"
      [] k = "Nginx" -> "nginx"
      [] k = "SQUID" -> "squid"
      [] OTHER -> k

\* int() of a string of decimal digits
RECURSIVE ParseInt(_)
ParseInt(d) ==
    IF d = <<>> THEN 0
    ELSE 10 * ParseInt(SubSeq(d, 1, Len(d) - 1)) + d[Len(d)]

\* int(port)
ToInt(port) == IF port.t = "int" THEN port.v ELSE ParseInt(port.d)

\* sanitize_host_port with the proxy default
sanitize_host_port_3128(host, port) ==
    <<host, IF port.t = "none" THEN 3128 ELSE ToInt(port)>>

\* sanitize_host_port: <<host, port>>
sanitize_host_port(host, port) ==
    <<host, IF port.t = "none" THEN 80 ELSE ToInt(port)>>

\* check's branches with everything that is not a proxy probed as http
DispatchElseHttp(target_type) ==
    IF lower(target_type) \in {"squid", "proxy"} THEN "squid" ELSE "http"

\* check: which probe a target_type is handed to
Dispatch(target_type) ==
    IF lower(target_type) \in {"http", "nginx"} THEN "http"
    ELSE IF lower(target_type) \in {"squid", "proxy"} THEN "squid"
    ELSE "unknown"

\* check_http_server that counts only a 2xx response as a success
check_http_server_2xx(host, port, scheme, path, net) ==
    LET url == <<scheme, "://", host, ":", port, path>>
    IN  IF net.t = "resp" /\ net.status \in 200..299
        THEN [ok |-> TRUE, type |-> "http", url |-> url,
              status_code |-> net.status, latency_ms |-> net.ms,
              headers |-> {<<"server", "nginx">>}]
        ELSE [ok |-> FALSE, type |-> "http", url |-> url,
              error |-> <<net.error>>, latency_ms |-> net.ms]

\* check_http_server: the dict it returns
check_http_server(host, port, scheme, path, net) ==
    LET url == <<scheme, "://", host, ":", port, path>>
    IN  IF net.t = "resp"
        THEN [ok |-> TRUE, type |-> "http", url |-> url,
              status_code |-> net.status, latency_ms |-> net.ms,
              headers |-> {<<"server", "nginx">>}]
        ELSE [ok |-> FALSE, type |-> "http", url |-> url,
              error |-> <<net.error>>, latency_ms |-> net.ms]

\* check_squid_proxy: the dict it returns
check_squid_proxy(host, port, test_url, net) ==
    LET proxy == <<"http://", host, ":", port>>
    IN  IF net.t = "resp"
        THEN [ok |-> TRUE, type |-> "squid", proxy |-> proxy,
              test_url |-> test_url, status_code |-> net.status,
              latency_ms |-> net.ms, headers |-> {<<"server", "nginx">>}]
        ELSE [ok |-> FALSE, type |-> "squid", proxy |-> proxy,
              test_url |-> test_url, error |-> <<net.error>>,
              latency_ms |-> net.ms]

\* check's last line
unknown_target_type(target_type) ==
    [ok |-> FALSE, error |-> <<"unknown target type: ", target_type>>]

\* the dict of _check_loop's except branch
exception_ping(ts, e) == [ts |-> ts, ok |-> FALSE, error |-> <<e>>]

\* the dict a loop hands to add_ping: check's, with res['ts'] attached, for a
\* probe that got a response ("ok") or none ("fail"), or the except branch's
LoopResult(probe, res, ts) ==
    LET net == IF res = "ok"
               THEN [t |-> "resp", status |-> 200, error |-> "", ms |-> 15]
               ELSE [t |-> "err", status |-> 0, error |-> "ConnectError",
                     ms |-> 8000]
        d == IF probe = "squid"
             THEN check_squid_proxy("example.com", 3128, "SQUID_HTTP_TARGET",
                                    net)
             ELSE check_http_server("example.com", 80, "http", "/", net)
    IN  IF res = "exc" THEN exception_ping(ts, "error")
        ELSE [k \in DOMAIN d \cup {"ts"} |-> IF k = "ts" THEN ts ELSE d[k]]

\* ping.get(key): the value, or None
Get(ping, key) == IF key \in DOMAIN ping THEN {ping[key]} ELSE {}

\* add_ping: the columns of the row it inserts
Columns(ping) ==
    [ts |-> Get(ping, "ts"),
     ok |-> IF "ok" \in DOMAIN ping /\ ping.ok THEN 1 ELSE 0,
     status_code |-> Get(ping, "status_code"),
     latency_ms |-> Get(ping, "latency_ms"),
     error |-> Get(ping, "error")]

ProbeInit ==
    /\ phase = "stopped"
    /\ listed = {}
    /\ servers = [i \in ServerIds |-> NoRow]
    /\ nextServerId = 1
    /\ pings = <<>>
    /\ nextPingId = 1
    /\ now = 0
    /\ tasks = [i \in ServerIds |-> NoTask]
    /\ loops = [t \in TaskIds |-> FreeTask]
    /\ reqs = [r \in ReqIds |-> IdleReq]
    /\ faults = 0
    /\ arrived = 0
    /\ client = IdleClient
    /\ \E k \in Kinds, h \in Hosts, p \in Ports, n \in Nets :
          call = [pc |-> "called", target_type |-> k, host |-> h, port |-> p,
                  scheme |-> "http", path |-> "/", net |-> n,
                  nhost |-> "", nport |-> 0, sent |-> 0, result |-> <<>>]

\* check: sanitize_host_port, then the branch of target_type; the probes
\* send their request and await the answer
CheckDispatch ==
    /\ call.pc = "called"
    /\ LET hp == sanitize_host_port(call.host, call.port)
           to == Dispatch(call.target_type)
       IN  call' = [call EXCEPT
              !.nhost = hp[1], !.nport = hp[2],
              !.pc = IF to = "unknown" THEN "returned" ELSE to,
              !.sent = IF to = "unknown" THEN 0 ELSE 1,
              !.result = IF to = "unknown"
                         THEN unknown_target_type(call.target_type)
                         ELSE <<>>]
    /\ UNCHANGED <<phase, listed, servers, nextServerId, pings, nextPingId,
                   now, tasks, loops, reqs, faults, arrived, client>>

\* check_http_server: client.get answers or raises; the dict is returned
HttpReturns ==
    /\ call.pc = "http"
    /\ call' = [call EXCEPT
          !.pc = "returned",
          !.result = check_http_server(call.nhost, call.nport, call.scheme,
                                       call.path, call.net)]
    /\ UNCHANGED <<phase, listed, servers, nextServerId, pings, nextPingId,
                   now, tasks, loops, reqs, faults, arrived, client>>

\* check_squid_proxy(host, port or 3128, test_url or None, timeout)
SquidReturns ==
    /\ call.pc = "squid"
    /\ call' = [call EXCEPT
          !.pc = "returned",
          !.result = check_squid_proxy(
                         call.nhost,
                         IF call.nport = 0 THEN 3128 ELSE call.nport,
                         "SQUID_HTTP_TARGET", call.net)]
    /\ UNCHANGED <<phase, listed, servers, nextServerId, pings, nextPingId,
                   now, tasks, loops, reqs, faults, arrived, client>>

ProbeNext == CheckDispatch \/ HttpReturns \/ SquidReturns

ProbeSpec == ProbeInit /\ [][ProbeNext]_vars

\* ---------------------------------------------------------------- claims
LoopsOf(sid) == {t \in TaskIds : loops[t].sid = sid /\ Active(loops, t)}
Quiescent == phase = "serving" /\ \A r \in ReqIds : reqs[r].pc = "idle"
Registered(sid) == servers[sid].present
\* the step starts a probe loop for sid
Started(sid) ==
    \E t \in TaskIds : /\ loops[t].pc \in {"free", "done"}
                       /\ loops'[t].pc = "get1"
                       /\ loops'[t].sid = sid
\* the step is a statement of add_ping executed by task t
WriteStep(t) ==
    <<loops[t].pc, loops'[t].pc>> \in
        {<<"ins", "prune">>, <<"xins", "xprune">>,
         <<"prune", "get2">>, <<"xprune", "get2">>}

\* C1: for every target id at most one probe loop is neither cancelled nor
\* finished, in every state; and a step that starts a loop for an id leaves
\* exactly one such loop for that id.
C1_OneActiveLoopPerTarget ==
    /\ [](\A sid \in ServerIds : Cardinality(LoopsOf(sid)) <= 1)
    /\ [][\A sid \in ServerIds :
            Started(sid) => Cardinality(LoopsOf(sid))' = 1]_vars

\* a loop was superseded: its successor runs while it has yet to see the cancel
C1_Witness ==
    \E sid \in ServerIds, t \in TaskIds, u \in TaskIds :
        /\ t # u
        /\ loops[t].sid = sid /\ Active(loops, t)
        /\ loops[u].sid = sid /\ Live(loops, u) /\ loops[u].cancel

\* C2: whenever no startup, create, update or delete is in progress, every
\* registered target has a running probe task in the task map.  Stated for
\* the runs in which storage never failed, so that a violation is the
\* handlers' own doing.
C2_RegisteredTargetsHaveRunningTask ==
    (Quiescent /\ faults = 0) =>
        \A sid \in ServerIds :
            Registered(sid) =>
                tasks[sid] # NoTask /\ Active(loops, tasks[sid])

\* C4: once the deletion of a target has completed, no history is readable
\* for it, now or later.
C4_NoHistoryAfterDelete ==
    \A sid \in ServerIds :
        ( /\ sid < nextServerId
          /\ ~Registered(sid)
          /\ \A r \in ReqIds : ~(reqs[r].op = "delete" /\ reqs[r].sid = sid) )
        => \A tie \in TieOrders : get_pings(pings, sid, HistoryCap, tie) = <<>>

\* C5: a task whose cancellation has been requested executes no further
\* statement of add_ping, whatever await it was suspended at; and the step
\* that requests the cancellation leaves the task where it was (the caller
\* does not run it to its end).
C5_NoWriteAfterCancel ==
    [][\A t \in TaskIds :
         /\ (Live(loops, t) /\ loops[t].cancel) => ~WriteStep(t)
         /\ (Live(loops, t) /\ ~loops[t].cancel /\ loops'[t].cancel)
               => loops'[t].pc = loops[t].pc]_vars

\* cancellation was requested between the INSERT and the prune of an append
C5_Witness ==
    \E t \in TaskIds : loops[t].pc = "prune" /\ loops[t].cancel

\* C6: an error inside a loop iteration never ends the loop.
C6_ErrorNeverEndsLoop ==
    \A t \in TaskIds : ~(Done(loops, t) /\ loops[t].why = "error")

\* C7 (safety half): the loop of a target that is still registered, and whose
\* task was never cancelled, has not terminated.
C7_LoopOfRegisteredTargetRuns ==
    \A t \in TaskIds :
        (Done(loops, t) /\ ~loops[t].cancel) => ~Registered(loops[t].sid)
\* C8: a loop that is asleep, or about to re-read, while its target is absent
\* issues no further probe and appends nothing, and it terminates.
C8_AbsentTargetEndsLoop ==
    /\ [][\A t \in TaskIds :
            (loops[t].pc \in {"sleep", "get1"} /\ ~Registered(loops[t].sid))
            => loops'[t].pc \in {"sleep", "get1", "done", "free"}]_vars
    /\ \A t \in TaskIds :
          (loops[t].pc \in {"sleep", "get1", "get2"}
              /\ ~Registered(loops[t].sid))
          ~> (loops[t].pc \in {"done", "free"})

\* the target vanished while a loop nobody cancelled was asleep
C8_Witness ==
    \E t \in TaskIds :
        /\ loops[t].pc = "sleep" /\ ~loops[t].cancel
        /\ ~Registered(loops[t].sid)
Range(q) == {q[i] : i \in 1..Len(q)}

\* C3: no target has more than 100 stored entries in any state a reader can
\* observe, the states between the INSERT and the prune of an append included.
C3_AtMostCapEntriesObservable ==
    \A sid \in ServerIds : Cardinality(RowsOf(pings, sid)) <= HistoryCap

\* C9: after n completed appends to Target with strictly increasing
\* timestamps and nothing else done to it, its history is exactly the
\* min(n, 100) most recently appended results, and that is what get_pings
\* returns, newest first.
C9_SequentialAppendsKeepMostRecent ==
    (client.pc = "idle" /\ ~client.reading /\ client.mono) =>
        LET n == Len(client.log)
            k == Min(n, HistoryCap)
        IN  /\ RowsOf(pings, Target) = {client.log[j] : j \in (n - k + 1)..n}
            /\ \A tie \in TieOrders :
                  get_pings(pings, Target, HistoryCap, tie)
                      = [i \in 1..k |-> client.log[n - i + 1]]

\* 105 appends in timestamp order have completed
C9_Witness ==
    /\ client.pc = "idle" /\ ~client.reading /\ client.mono
    /\ Len(client.log) = HistoryCap + 5

\* C10: after completed appends, get_pings(id, N) returns at most
\* min(N, 100) rows, all of target id, no row twice, in non-increasing
\* timestamp order, and no row of the target left out is newer than a row
\* returned; for a target without history it returns the empty sequence.
C10_RecentIsBoundedSortedNewest ==
    (client.reading /\ client.pc = "idle" /\ client.cancels = 0) =>
        LET q == client.result
            R == RowsOf(pings, client.rsid)
        IN  /\ Len(q) = Min(client.rlimit, Cardinality(R))
            /\ Len(q) <= Min(client.rlimit, HistoryCap)
            /\ Range(q) \subseteq R
            /\ Cardinality(Range(q)) = Len(q)
            /\ \A i \in 1..(Len(q) - 1) : q[i].ts >= q[i + 1].ts
            /\ \A r \in R \ Range(q) : \A i \in 1..Len(q) : r.ts <= q[i].ts
            /\ (R = {} => q = <<>>)

\* a read of a full history whose timestamps are not in insertion order
C10_Witness ==
    /\ client.reading /\ client.pc = "idle" /\ client.cancels = 0
    /\ client.skews > 0
    /\ client.rlimit = 1
    /\ Cardinality(RowsOf(pings, client.rsid)) = HistoryCap

\* C11: _cancel_task on an id without a task changes nothing, and a second
\* _cancel_task right after a first changes nothing more: afterwards the id
\* has no task (task_running is false) and no other id's task is touched.
C11_CancelTaskIdempotent ==
    \A sid \in ServerIds :
        LET once == CancelAndPop(loops, tasks, sid)
            twice == CancelAndPop(once[1], once[2], sid)
        IN  /\ twice = once
            /\ once[2][sid] = NoTask
            /\ \A o \in ServerIds \ {sid} : once[2][o] = tasks[o]
            /\ \A t \in TaskIds : t # tasks[sid] => once[1][t] = loops[t]
            /\ tasks[sid] = NoTask => once = <<loops, tasks>>

\* a delete has run _cancel_task on a target whose loop was running, and an
\* id without a task exists to call it on again
C11_Witness ==
    \E r \in ReqIds, t \in TaskIds :
        /\ reqs[r].op = "delete" /\ reqs[r].pc = "ret"
        /\ reqs[r].remaining = {}
        /\ tasks[reqs[r].sid] = NoTask
        /\ loops[t].sid = reqs[r].sid /\ Live(loops, t) /\ loops[t].cancel
        /\ \E o \in ServerIds : tasks[o] # NoTask /\ Active(loops, tasks[o])

\* C12: after shutdown every loop still alive has had cancellation requested,
\* and from then on no loop issues a probe or executes a statement of add_ping.
C12_ShutdownStopsLoops ==
    /\ [](phase = "stopped" =>
            \A t \in TaskIds : Live(loops, t) => loops[t].cancel)
    /\ [][phase = "stopped" =>
            \A t \in TaskIds :
                /\ ~WriteStep(t)
                /\ ~(loops[t].pc = "get1" /\ loops'[t].pc = "probe")]_vars

\* shutdown found one loop in the middle of a probe and another in add_ping
C12_Witness ==
    /\ phase = "stopped"
    /\ \E t \in TaskIds, u \in TaskIds :
          /\ loops[t].pc = "probe" /\ loops[t].cancel
          /\ loops[u].pc \in {"ins", "prune"} /\ loops[u].cancel

\* the step is the return of an update handler whose row was found
UpdateCompletes(r) ==
    /\ reqs[r].op = "update" /\ reqs[r].pc = "ret" /\ reqs[r].row.present
    /\ reqs'[r].pc = "idle"
\* an update of sid has written the row and has yet to restart the loop
UpdateInProgress(sid) ==
    \E r \in ReqIds : /\ reqs[r].op = "update" /\ reqs[r].sid = sid
                      /\ reqs[r].pc \in {"reread", "ret"}

\* C13: the return of an update cancels the loop that was running for the id
\* and starts a new one that has read nothing yet; once no update of the id
\* is between its write and its return, a probe in flight for the id uses
\* the row the registry holds; and only the task the task map holds for an
\* id executes statements of add_ping for it (the superseded loop appends
\* nothing once the new loop has started).
C13_UpdateSupersedesLoop ==
    /\ [][\A r \in ReqIds :
            UpdateCompletes(r) =>
              LET sid == reqs[r].sid
                  old == tasks[sid]
                  new == tasks'[sid]
              IN  /\ new # NoTask
                  /\ loops'[new] = NewTask(sid)
                  /\ (old # NoTask /\ Live(loops, old)) =>
                        (old # new /\ loops'[old].cancel)]_vars
    /\ [](\A t \in TaskIds :
            ( /\ loops[t].pc = "probe" /\ ~loops[t].cancel
              /\ Registered(loops[t].sid)
              /\ ~UpdateInProgress(loops[t].sid) )
            => loops[t].s = servers[loops[t].sid])
    /\ [][\A t \in TaskIds :
            WriteStep(t) => tasks[loops[t].sid] = t]_vars

\* after an update to interval 7 the new loop probes with the new row while
\* the loop it replaced, caught with a finished probe, has yet to end
C13_Witness ==
    \E t \in TaskIds, u \in TaskIds :
        /\ t # u /\ loops[t].sid = loops[u].sid
        /\ loops[t].pc = "probe" /\ ~loops[t].cancel
        /\ loops[t].s = Row(7) /\ servers[loops[t].sid] = Row(7)
        /\ ~UpdateInProgress(loops[t].sid)
        /\ loops[u].pc = "ins" /\ loops[u].cancel

\* the loops of sid that are inside check(...), not cancelled
InFlight(sid) ==
    {t \in TaskIds : /\ loops[t].sid = sid /\ loops[t].pc = "probe"
                     /\ ~loops[t].cancel}

\* C14: a target never has two probe calls in flight, and the rows of a
\* target are in the table in the order in which their probes completed
\* (res['ts'] is taken when the probe completes; rowid is the append order).
C14_ProbesSequentialAppendsInOrder ==
    /\ \A sid \in ServerIds : Cardinality(InFlight(sid)) <= 1
    /\ \A i \in 1..Len(pings), j \in 1..Len(pings) :
          (i < j /\ pings[i].server_id = pings[j].server_id)
              => pings[i].ts < pings[j].ts

\* a loop finished a probe, was superseded before it appended the result,
\* and the new loop's later result is stored after an earlier one
C14_Witness ==
    \E t \in TaskIds :
        /\ loops[t].pc = "ins" /\ loops[t].cancel
        /\ Len(pings) = 2
        /\ pings[1].server_id = loops[t].sid
        /\ pings[2].server_id = loops[t].sid
        /\ pings[1].ts < loops[t].ts /\ loops[t].ts < pings[2].ts

\* C17: a loop that is asleep sleeps max(1, interval) seconds, interval being
\* the value it read from the registry after the probe of this iteration.
C17_SleepsMaxOneInterval ==
    \A t \in TaskIds :
        loops[t].pc = "sleep" => loops[t].sleep = Max(1, loops[t].s2.interval)

\* the kinds that name a probe, whatever the case of their letters
KnownKinds == {"http", "HTTP", "nginx", "Nginx", "squid", "SQUID", "proxy"}
HttpKinds == {"http", "HTTP", "nginx", "Nginx"}

\* C15: check with a kind that is none of http, nginx, squid, proxy (in any
\* case) returns at once, having sent no request, a result with ok false and
\* an error that starts with "unknown target type".
C15_UnknownKindFails ==
    (call.pc \notin {"idle", "called"} /\ call.target_type \notin KnownKinds)
        => /\ call.pc = "returned"
           /\ call.sent = 0
           /\ call.result.ok = FALSE
           /\ call.result.error[1] = "unknown target type: "
           /\ call.result.error[2] = call.target_type

\* check('ftp', host, None) has returned
C15_Witness ==
    /\ call.pc = "returned" /\ call.target_type = "ftp"
    /\ call.port = PortNone

\* C16: an http probe that got a response returns ok true and the response's
\* status, whatever the status; it returns ok false exactly when client.get
\* raised, with the error captured in the result.
C16_HttpAnyStatusSucceeds ==
    (call.pc = "returned" /\ call.target_type \in HttpKinds)
        => /\ call.sent = 1
           /\ call.net.t = "resp" =>
                 /\ call.result.ok = TRUE
                 /\ call.result.status_code = call.net.status
           /\ call.net.t = "err" =>
                 /\ call.result.ok = FALSE
                 /\ call.result.error = <<call.net.error>>
           /\ call.result.ok = (call.net.t = "resp")

\* an http probe was answered with status 500
C16_Witness ==
    /\ call.pc = "returned" /\ call.target_type \in HttpKinds
    /\ call.net.t = "resp" /\ call.net.status = 500

\* the integer a port argument stands for
ExpectedPort(port) ==
    CASE port = PortNone -> 80
      [] port.t = "int" -> port.v
      [] port = PortStr(<<8, 0, 8, 0>>) -> 8080
      [] port = PortStr(<<0, 8>>) -> 8

\* C18: before dispatch, for every kind, the host is kept as given and the
\* port is the integer the argument stands for, 80 when it is absent.
C18_HostPortNormalised ==
    (call.pc \notin {"idle", "called"})
        => /\ call.nhost = call.host
           /\ call.nport = ExpectedPort(call.port)

\* a proxy probe was dispatched with no port given
C18_Witness ==
    /\ call.pc = "squid" /\ call.port = PortNone /\ call.nport = 80

\* C19: every row a loop has stored has a status code exactly when ok is 1,
\* an error exactly when ok is 0, and a latency, whichever probe produced it.
C19_StoredResultFields ==
    \A i \in 1..Len(pings), probe \in {"http", "squid"} :
        LET c == Columns(LoopResult(probe, pings[i].res, pings[i].ts))
        IN  /\ (c.status_code # {}) = (c.ok = 1)
            /\ (c.error # {}) = (c.ok = 0)
            /\ c.latency_ms # {}

\* C20: once no create, update or delete is in progress, _tasks holds no entry
\* for a target id that is absent from the registry.
C20_NoTaskEntryForAbsentTarget ==
    Quiescent => \A sid \in ServerIds : ~Registered(sid) => tasks[sid] = NoTask

\* the history of sid as the table holds it, in rowid order
HistoryOf(P, sid) == SelectSeq(P, LAMBDA r : r.server_id = sid)

\* the target a step of the store acts on: add_ping's INSERT or prune, or
\* delete_server's transaction; 0 for any other step
ActedOn ==
    IF client.pc = "idle" /\ client'.pc = "inserted" THEN client'.sid
    ELSE IF client.pc = "inserted" /\ client'.pc = "idle"
              /\ client'.cancels = client.cancels THEN client.sid
    ELSE IF call.pc = "idle" /\ call'.pc = "deleted" THEN call'.server_id
    ELSE 0

\* C21: the INSERT and the prune of add_ping(A, ...) and delete_server(A)
\* leave the history of every other target B exactly as it was.
C21_OtherHistoriesUnchanged ==
    [][\A b \in ServerIds :
          b # ActedOn => HistoryOf(pings', b) = HistoryOf(pings, b)]_vars

\* an append to Target's full history, its clock set back or repeated, has
\* pruned a row, and Other has been deleted
C21_Witness ==
    /\ call.pc = "deleted" /\ call.server_id = Other
    /\ RowsOf(pings, Other) = {}
    /\ client.pc = "idle" /\ client.cancels = 0 /\ client.others = 0
    /\ client.appends > 0 /\ client.skews > 0
    /\ nextPingId > 2 * HistoryCap + 1
    /\ Cardinality(RowsOf(pings, Target)) = HistoryCap

\* C22: once add_ping(Target, r) has completed, r is among
\* get_pings(Target, 100), whatever timestamp r carries.
C22_AppendedEntryIsRecent ==
    (client.pc = "idle" /\ client.cancels = 0 /\ client.appends > 0
       /\ client.log # <<>>) =>
        \A tie \in TieOrders :
            client.log[Len(client.log)]
                \in Range(get_pings(pings, Target, HistoryCap, tie))

====
